---- MODULE Spec2Model ----
(***************************************************************************)
(* A model of four pieces of the binius proving stack:                     *)
(*   - crates/field/src/packed_extension_ops.rs   (ext_base_mul, _par)     *)
(*   - crates/core/src/protocols/fri/common.rs    (FRI parameter maths)    *)
(*   - crates/core/src/protocols/sumcheck/prove/                           *)
(*       batch_prove_univariate_zerocheck.rs      (batched univariate rnd) *)
(*   - crates/circuits/src/lasso/u8mul.rs         (u8 multiplication)      *)
(* Every piece has its own specification (SpecExt, SpecPar, ...) over the  *)
(* variables of that piece; the variables of the other pieces stay idle.   *)
(***************************************************************************)
EXTENDS Integers, Sequences, FiniteSets, TLC

VARIABLES
    \* ---- packed_extension_ops.rs
    pe,         \* the packing instantiated: [LOG_WIDTH, DEGREE] of PE over F
    lhs,        \* lhs: &mut [PE], indexed from 0
    rhs,        \* rhs: &[PE::PackedSubfield], indexed from 0
    lhs_in,     \* lhs as it was handed to the call
    ext_mode,   \* which entry point is called: "serial" | "par"
    ext_pc,     \* "ready" | "running" (workers of the parallel form) | "returned"
    ext_ret,    \* "none" | "Ok" | "MismatchedLengths"
    op_calls,   \* how often the closure op has been invoked
    par_pc,     \* per lhs index, the worker's position: "read" | "write" | "done"
    par_val,    \* per lhs index, the value op returned, not yet stored
    par_reads,  \* the workers' reads of lhs: pairs <<worker, index>>
    par_writes, \* the workers' writes of lhs: pairs <<worker, index>>
    \* ---- fri/common.rs: the round schedule
    rs_code,                  \* rs_code: [log_dim, log_inv_rate]
    round_vcss,               \* vector_len() of each of round_vcss
    fri_call,                 \* "pipeline": from calculate_fold_commit_rounds on;
                              \* "direct": the two later functions on any list
    fri_pc,                   \* "commit" | "starts" | "arities" | "done"
    commit_ret,               \* what calculate_fold_commit_rounds returned
    fold_commit_rounds,       \* argument of calculate_fold_chunk_start_rounds
    fold_chunk_start_rounds,  \* its result
    total_fold_rounds,        \* argument of calculate_folding_arities
    overflow_checks,          \* whether the build panics on integer overflow
    folding_arities,          \* result of calculate_folding_arities
    \* ---- fri/common.rs: calculate_n_test_queries
    security_bits,  \* security_bits
    q_code,         \* code: [log_dim, log_inv_rate]
    q_field_bits,   \* F::N_BITS
    q_pc,           \* "call" | "returned"
    q_n0,           \* n_queries before the loop
    q_ret,          \* the result: [tag, n]
    \* ---- batch_prove_univariate_zerocheck.rs
    provers,              \* provers: per prover [n_vars, domain_size, phase]
    skip_rounds,          \* skip_rounds
    transcript,           \* what the transcript was asked, in order:
                          \* <<"sample", value>> and <<"write", message>>
    zc_pc,                \* position in batch_prove_zerocheck_univariate_round
    zc_i,                 \* index of the prover the current loop is at
    max_domain_size,      \* max_domain_size
    batch_coeffs,         \* batch_coeffs
    round_evals,          \* round_evals: [zeros_prefix_len, len]
    univariate_challenge, \* univariate_challenge
    reduction_provers,    \* reduction_provers
    zc_ret,               \* "none" | "Ok" | the error returned
    zc_log,               \* every transcript and prover call made, in order
    \* ---- u8mul.rs
    has_witness,          \* builder.witness() is Some
    has_inputs,           \* the witness holds the columns mult_a and mult_b
    log_size,             \* log_size
    mult_a_ints,          \* the column mult_a as bytes
    mult_b_ints,          \* the column mult_b as bytes
    product_scalars,      \* the column product (B16 as u16)
    lookup_u_scalars,     \* the column lookup_u (B32 as <<high u16, low u16>>)
    lookup_t_scalars,     \* the column lookup_t (B32 as <<high u16, low u16>>)
    u_to_t_mapping,       \* u_to_t_mapping: [some, val]
    lasso_arg,            \* the call of lasso: [called, u_to_t_mapping]
    u8_pc,                \* "idle" | "start" | "done" | "err" | "err_lasso" | "panic"
    \* ---- u8mul.rs, the encoding of one input row and of its table row,
    \* beside the encoding of a second input row
    enc_a,                \* a_int of the row
    enc_b,                \* b_int of the row
    enc_a2,               \* a_int of the second row
    enc_b2,               \* b_int of the second row
    enc_wide,             \* lookup_index << 16 | ab_product, before the cast
    enc_u,                \* the scalar stored in lookup_u for the row
    enc_t,                \* the scalar stored in lookup_t at the row's index
    enc_u2,               \* the scalar stored in lookup_u for the second row
    enc_pc,               \* "idle" | "start" | "done"
    \* ---- fri/common.rs, fold_chunk
    fc_log_dim,            \* rs_code.log_dim()
    fc_twiddle,            \* which subspace evaluator rs_code.get_ntt() is
    fc_start_round,        \* start_round
    fc_chunk_index,        \* chunk_index
    fc_values,             \* values
    folding_challenges,    \* folding_challenges
    scratch_buffer,        \* scratch_buffer
    debug_assertions,      \* the build has debug assertions
    n_challenges_processed,\* the loop over the challenges
    index_offset,          \* the loop over the pairs of a round
    fc_pc,                 \* "idle" | "start" | "fold" | "returned" | "panic"
    fc_ret,                \* the scalar returned
    fc_written,            \* the cells written in the current round
    fc_hazard,             \* a pair has read a cell written in its round
    fc_log                 \* the calls of fold_pair made, in order

extVars ==
    <<pe, lhs, rhs, lhs_in, ext_mode, ext_pc, ext_ret, op_calls,
      par_pc, par_val, par_reads, par_writes>>

friVars ==
    <<rs_code, round_vcss, fri_call, fri_pc, commit_ret, fold_commit_rounds,
      fold_chunk_start_rounds, total_fold_rounds, overflow_checks, folding_arities>>

qVars == <<security_bits, q_code, q_field_bits, q_pc, q_n0, q_ret>>

zcVars ==
    <<provers, skip_rounds, transcript, zc_pc, zc_i, max_domain_size, batch_coeffs,
      round_evals, univariate_challenge, reduction_provers, zc_ret, zc_log>>

u8Vars ==
    <<has_witness, has_inputs, log_size, mult_a_ints, mult_b_ints, product_scalars,
      lookup_u_scalars, lookup_t_scalars, u_to_t_mapping, lasso_arg, u8_pc>>

encVars == <<enc_a, enc_b, enc_a2, enc_b2, enc_wide, enc_u, enc_t, enc_u2, enc_pc>>

fcVars ==
    <<fc_log_dim, fc_twiddle, fc_start_round, fc_chunk_index, fc_values,
      folding_challenges, scratch_buffer, debug_assertions, n_challenges_processed,
      index_offset, fc_pc, fc_ret, fc_written, fc_hazard, fc_log>>

vars == <<extVars, friVars, qVars, zcVars, u8Vars, encVars, fcVars>>

\* what an action of one piece leaves alone: the variables of the other pieces
extOthers == <<friVars, qVars, zcVars, u8Vars, encVars, fcVars>>

friOthers == <<extVars, qVars, zcVars, u8Vars, encVars, fcVars>>

qOthers == <<extVars, friVars, zcVars, u8Vars, encVars, fcVars>>

zcOthers == <<extVars, friVars, qVars, u8Vars, encVars, fcVars>>

fcOthers == <<extVars, friVars, qVars, zcVars, u8Vars, encVars>>

encOthers == <<extVars, friVars, qVars, zcVars, u8Vars, fcVars>>

u8Others == <<extVars, friVars, qVars, zcVars, encVars, fcVars>>

(***************************************************************************)
(* Bounds of the model.                                                    *)
(***************************************************************************)
MaxRhsLen == 1

\* log_len of the Reed-Solomon codes drawn, and the rounds of a direct call
MaxLogLen == 3

\* how many round vector commitment schemes (and commit rounds) a call is given
MaxVcs == 2

\* the small security levels and code dimensions calculate_n_test_queries is run on
MaxSecurityBits == 4

MaxLogDim == 2

\* bits per limb of the numbers too wide for a machine word
LimbBits == 14

\* the provers of a batch, their n_vars, and skip_rounds
MaxProvers == 2

MaxNVars == 2

MaxSkipRounds == 2

\* log_size of the columns given to u8mul
MaxLogSize == 1

\* the number of challenges, the chunk index and the start round of fold_chunk
MaxChallenges == 2

MaxChunkIndex == 1

MaxStartRound == 1

(***************************************************************************)
(* Arrays are functions on 0..n-1, as the slices of the source.            *)
(***************************************************************************)
Range0(n) == 0 .. (n - 1)

Len0(a) == Cardinality(DOMAIN a)

Arrays(n, S) == [Range0(n) -> S]

EmptyArr == [i \in {} |-> 0]

(***************************************************************************)
(* The field tower. F is the binary field with two elements; an extension  *)
(* scalar of degree d over F is its d coordinates in the tower basis.      *)
(***************************************************************************)
BaseField == {0, 1}

BaseMul(x, y) == x * y

ExtField(d) == Arrays(d, BaseField)

\* extension scalar times base scalar: the base scalar acts on every coordinate
ExtScalarMul(e, b) == [k \in DOMAIN e |-> BaseMul(e[k], b)]

\* PE::WIDTH and PE::PackedSubfield::WIDTH: both packings fill the same underlier
Width(cfg) == 2 ^ cfg.LOG_WIDTH

SubWidth(cfg) == Width(cfg) * cfg.DEGREE

\* The packings the model instantiates PE with: (LOG_WIDTH, DEGREE).
PackedCfgs ==
    { [LOG_WIDTH |-> 0, DEGREE |-> 2],
      [LOG_WIDTH |-> 1, DEGREE |-> 2],
      [LOG_WIDTH |-> 1, DEGREE |-> 1],
      [LOG_WIDTH |-> 0, DEGREE |-> 4] }

PackedExt(cfg) == Arrays(Width(cfg), ExtField(cfg.DEGREE))

PackedSub(cfg) == Arrays(SubWidth(cfg), BaseField)

\* PackedExtension::cast_base: the same bits read as base scalars; extension
\* scalar s holds the base lanes s*DEGREE .. s*DEGREE + DEGREE - 1.
cast_base(cfg, x) ==
    [j \in Range0(SubWidth(cfg)) |-> x[j \div cfg.DEGREE][j % cfg.DEGREE]]

\* PackedExtension::cast_ext: the inverse reading.
cast_ext(cfg, y) ==
    [s \in Range0(Width(cfg)) |->
        [k \in Range0(cfg.DEGREE) |-> y[s * cfg.DEGREE + k]]]

\* PackedField multiplication: lane by lane.
PackedMul(x, y) == [j \in DOMAIN x |-> BaseMul(x[j], y[j])]

\* PackedField::spread_unchecked(log_block_len, block_idx) on a packed base
\* element: the block of 2^log_block_len scalars at block_idx, each repeated
\* so that the block fills the whole width.
spread_unchecked(cfg, p, log_block_len, block_idx) ==
    LET block_len == 2 ^ log_block_len
        repeat    == SubWidth(cfg) \div block_len
    IN  [j \in Range0(SubWidth(cfg)) |-> p[block_idx * block_len + (j \div repeat)]]

\* packed::get_packed_slice: scalar i of a slice of packed elements of width w
get_packed_slice(packed, w, i) == packed[i \div w][i % w]

(***************************************************************************)
(* packed_extension_ops.rs                                                 *)
(***************************************************************************)
get_rhs_at_pe_idx_swapped(cfg, r, i) ==
    LET bottom_most_scalar_idx == i * Width(cfg)
        in_subfield_arr        == bottom_most_scalar_idx \div SubWidth(cfg)
        within_packed_subfield == bottom_most_scalar_idx % SubWidth(cfg)
        block_idx              == within_packed_subfield \div Width(cfg)
    IN  spread_unchecked(cfg, r[in_subfield_arr], cfg.LOG_WIDTH,
                         (cfg.DEGREE - 1) - block_idx)

get_rhs_at_pe_idx(cfg, r, i) ==
    LET bottom_most_scalar_idx == i * Width(cfg)
        bottom_most_scalar_idx_in_subfield_arr ==
            bottom_most_scalar_idx \div SubWidth(cfg)
        bottom_most_scalar_idx_within_packed_subfield ==
            bottom_most_scalar_idx % SubWidth(cfg)
        block_idx == bottom_most_scalar_idx_within_packed_subfield \div Width(cfg)
    IN  spread_unchecked(cfg, r[bottom_most_scalar_idx_in_subfield_arr],
                         cfg.LOG_WIDTH, block_idx)

\* the closure of ext_base_mul and ext_base_mul_par
mul_op(cfg, lhs_elem, broadcasted_rhs) ==
    cast_ext(cfg, PackedMul(cast_base(cfg, lhs_elem), broadcasted_rhs))

\* the length check without the extension degree
LengthsMatch_nodegree(cfg, l, r) == Len0(l) = Len0(r)

\* the length check both ext_base_op and ext_base_op_par start with
LengthsMatch(cfg, l, r) == Len0(l) = Len0(r) * cfg.DEGREE

\* the loop of ext_base_op from element i on: lhs.iter_mut().enumerate().for_each
RECURSIVE ext_base_op_loop(_, _, _, _)
ext_base_op_loop(cfg, l, r, i) ==
    IF i >= Len0(l) THEN l
    ELSE ext_base_op_loop(cfg,
             [l EXCEPT ![i] = mul_op(cfg, l[i], get_rhs_at_pe_idx(cfg, r, i))],
             r, i + 1)

\* ---- the inputs of a call
\* The extension scalars handed in: the all-ones scalar and the top basis element.
ExtInputs(d) ==
    { [k \in Range0(d) |-> 1], [k \in Range0(d) |-> IF k = d - 1 THEN 1 ELSE 0] }

LhsInputs(cfg) == Arrays(Width(cfg), ExtInputs(cfg.DEGREE))

\* The base elements handed to the parallel form: one lane set, one lane clear.
RhsParInputs(cfg) ==
    { [j \in Range0(SubWidth(cfg)) |-> IF j = 1 THEN 1 ELSE 0],
      [j \in Range0(SubWidth(cfg)) |-> IF j = SubWidth(cfg) - 1 THEN 0 ELSE 1] }

\* The packings the parallel form is run with.
ParCfgs == { c \in PackedCfgs : c.DEGREE = 2 }

FcIdle ==
    /\ fc_log_dim = 0 /\ fc_twiddle = 0 /\ fc_start_round = 0 /\ fc_chunk_index = 0
    /\ fc_values = EmptyArr /\ folding_challenges = EmptyArr
    /\ scratch_buffer = EmptyArr /\ debug_assertions = FALSE
    /\ n_challenges_processed = 0 /\ index_offset = 0
    /\ fc_pc = "idle" /\ fc_ret = 0 /\ fc_written = {} /\ fc_hazard = FALSE
    /\ fc_log = <<>>

EncIdle ==
    /\ enc_a = 0 /\ enc_b = 0 /\ enc_a2 = 0 /\ enc_b2 = 0
    /\ enc_wide = <<0, 0>> /\ enc_u = <<0, 0>> /\ enc_t = <<0, 0>> /\ enc_u2 = <<0, 0>>
    /\ enc_pc = "idle"

NoLassoCall ==
    [called |-> FALSE, u_to_t_mapping |-> [some |-> FALSE, val |-> EmptyArr]]

U8Idle ==
    /\ has_witness = FALSE /\ has_inputs = FALSE /\ log_size = 0
    /\ mult_a_ints = EmptyArr /\ mult_b_ints = EmptyArr
    /\ product_scalars = EmptyArr /\ lookup_u_scalars = EmptyArr
    /\ lookup_t_scalars = EmptyArr
    /\ u_to_t_mapping = [some |-> FALSE, val |-> EmptyArr]
    /\ lasso_arg = NoLassoCall
    /\ u8_pc = "idle"

ZcIdle ==
    /\ provers = EmptyArr /\ skip_rounds = 0 /\ transcript = <<>>
    /\ zc_pc = "idle" /\ zc_i = 0 /\ max_domain_size = 0 /\ batch_coeffs = <<>>
    /\ round_evals = [zeros_prefix_len |-> 0, len |-> 0]
    /\ univariate_challenge = 0 /\ reduction_provers = <<>>
    /\ zc_ret = "none" /\ zc_log = <<>>

QIdle ==
    /\ security_bits = 0 /\ q_code = [log_dim |-> 0, log_inv_rate |-> 0]
    /\ q_field_bits = 0 /\ q_pc = "idle" /\ q_n0 = 0
    /\ q_ret = [tag |-> "none", n |-> 0]

FriIdle ==
    /\ rs_code = [log_dim |-> 0, log_inv_rate |-> 0]
    /\ round_vcss = EmptyArr /\ fri_call = "idle" /\ fri_pc = "idle"
    /\ commit_ret = [tag |-> "none", rounds |-> EmptyArr]
    /\ fold_commit_rounds = EmptyArr /\ fold_chunk_start_rounds = EmptyArr
    /\ total_fold_rounds = 0 /\ overflow_checks = FALSE
    /\ folding_arities = [tag |-> "none", arities |-> EmptyArr]

ExtIdle ==
    /\ pe = [LOG_WIDTH |-> 0, DEGREE |-> 1]
    /\ lhs = EmptyArr /\ rhs = EmptyArr /\ lhs_in = EmptyArr
    /\ ext_mode = "idle" /\ ext_pc = "idle" /\ ext_ret = "none" /\ op_calls = 0
    /\ par_pc = EmptyArr /\ par_val = EmptyArr
    /\ par_reads = {} /\ par_writes = {}

ExtInit ==
    /\ \/ /\ ext_mode = "serial"
          /\ pe \in PackedCfgs
          /\ \E n \in 0 .. MaxRhsLen : rhs \in Arrays(n, PackedSub(pe))
       \/ /\ ext_mode = "par"
          /\ pe \in ParCfgs
          /\ \E n \in 0 .. MaxRhsLen : rhs \in Arrays(n, RhsParInputs(pe))
    /\ \E m \in 0 .. (MaxRhsLen * pe.DEGREE) : lhs \in Arrays(m, LhsInputs(pe))
    /\ lhs_in = lhs
    /\ ext_pc = "ready" /\ ext_ret = "none" /\ op_calls = 0
    /\ par_pc = EmptyArr /\ par_val = EmptyArr
    /\ par_reads = {} /\ par_writes = {}
    /\ FriIdle /\ QIdle /\ ZcIdle /\ U8Idle /\ EncIdle /\ FcIdle

\* ---- ext_base_mul: ext_base_op with the multiplication closure, one call
ExtBaseOpErr ==
    /\ ext_pc = "ready" /\ ext_mode = "serial"
    /\ ~LengthsMatch(pe, lhs, rhs)
    /\ ext_ret' = "MismatchedLengths"
    /\ ext_pc' = "returned"
    /\ UNCHANGED <<pe, lhs, rhs, lhs_in, ext_mode, op_calls,
                   par_pc, par_val, par_reads, par_writes>>
    /\ UNCHANGED extOthers

ExtBaseOpOk ==
    /\ ext_pc = "ready" /\ ext_mode = "serial"
    /\ LengthsMatch(pe, lhs, rhs)
    /\ lhs' = ext_base_op_loop(pe, lhs, rhs, 0)
    /\ op_calls' = Len0(lhs)
    /\ ext_ret' = "Ok"
    /\ ext_pc' = "returned"
    /\ UNCHANGED <<pe, rhs, lhs_in, ext_mode, par_pc, par_val, par_reads, par_writes>>
    /\ UNCHANGED extOthers

\* ---- ext_base_mul_par: ext_base_op_par with the multiplication closure.
\* lhs.par_iter_mut().enumerate().for_each hands item (i, &mut lhs[i]) to a
\* worker; the workers run in any order and interleaving, and the call returns
\* when all of them are done.
ParCallErr ==
    /\ ext_pc = "ready" /\ ext_mode = "par"
    /\ ~LengthsMatch(pe, lhs, rhs)
    /\ ext_ret' = "MismatchedLengths"
    /\ ext_pc' = "returned"
    /\ UNCHANGED <<pe, lhs, rhs, lhs_in, ext_mode, op_calls,
                   par_pc, par_val, par_reads, par_writes>>
    /\ UNCHANGED extOthers

ParCallOk ==
    /\ ext_pc = "ready" /\ ext_mode = "par"
    /\ LengthsMatch(pe, lhs, rhs)
    /\ par_pc' = [i \in DOMAIN lhs |-> "read"]
    /\ par_val' = [i \in DOMAIN lhs |-> "none"]
    /\ ext_pc' = "running"
    /\ UNCHANGED <<pe, lhs, rhs, lhs_in, ext_mode, ext_ret, op_calls,
                   par_reads, par_writes>>
    /\ UNCHANGED extOthers

\* the index of lhs that the worker of item i reads through lhs_elem
par_elem_shared(l, i) == 0

par_elem(l, i) == i

\* worker i evaluates op(*lhs_elem, broadcasted_rhs)
ParRead(i) ==
    /\ ext_pc = "running" /\ par_pc[i] = "read"
    /\ par_val' = [par_val EXCEPT
                     ![i] = mul_op(pe, lhs[par_elem(lhs, i)], get_rhs_at_pe_idx(pe, rhs, i))]
    /\ par_reads' = par_reads \cup {<<i, par_elem(lhs, i)>>}
    /\ op_calls' = op_calls + 1
    /\ par_pc' = [par_pc EXCEPT ![i] = "write"]
    /\ UNCHANGED <<pe, lhs, rhs, lhs_in, ext_mode, ext_pc, ext_ret, par_writes>>
    /\ UNCHANGED extOthers

\* worker i stores the value into *lhs_elem
ParWrite(i) ==
    /\ ext_pc = "running" /\ par_pc[i] = "write"
    /\ lhs' = [lhs EXCEPT ![i] = par_val[i]]
    /\ par_writes' = par_writes \cup {<<i, i>>}
    /\ par_pc' = [par_pc EXCEPT ![i] = "done"]
    /\ UNCHANGED <<pe, rhs, lhs_in, ext_mode, ext_pc, ext_ret, op_calls,
                   par_val, par_reads>>
    /\ UNCHANGED extOthers

\* for_each returns once every item is processed
ParJoin ==
    /\ ext_pc = "running"
    /\ \A i \in DOMAIN par_pc : par_pc[i] = "done"
    /\ ext_ret' = "Ok"
    /\ ext_pc' = "returned"
    /\ UNCHANGED <<pe, lhs, rhs, lhs_in, ext_mode, op_calls,
                   par_pc, par_val, par_reads, par_writes>>
    /\ UNCHANGED extOthers

ExtNext ==
    \/ ExtBaseOpErr
    \/ ExtBaseOpOk
    \/ ParCallErr
    \/ ParCallOk
    \/ \E i \in DOMAIN par_pc : ParRead(i)
    \/ \E i \in DOMAIN par_pc : ParWrite(i)
    \/ ParJoin

SpecExt == ExtInit /\ [][ExtNext]_vars

(***************************************************************************)
(* Claims about packed_extension_ops.rs (under SpecExt)                    *)
(***************************************************************************)
ExtReturnedOk == ext_pc = "returned" /\ ext_ret = "Ok"

\* The scalars of lhs: Len0(lhs) * WIDTH of them.
ExtScalarIdx == Range0(Len0(lhs) * Width(pe))

C2_ParEqualsSerial ==
    (ext_mode = "par" /\ ext_pc \in {"running", "returned"} /\ ext_ret # "MismatchedLengths") =>
        LET serial == ext_base_op_loop(pe, lhs_in, rhs, 0)
        IN  /\ \A i \in DOMAIN lhs :
                 lhs[i] = IF par_pc[i] = "done" THEN serial[i] ELSE lhs_in[i]
            /\ \A a \in par_reads \cup par_writes : a[1] = a[2]
            /\ \A a, b \in par_writes : a[2] = b[2] => a[1] = b[1]
            /\ ext_pc = "returned" => lhs = serial

\* a parallel call over two items returned after worker 1 stored before worker 0 read
C2_Witness ==
    /\ ext_mode = "par" /\ ext_pc = "running"
    /\ Len0(lhs) >= 2
    /\ par_pc[1] = "done" /\ par_pc[0] = "read"
    /\ lhs[1] # lhs_in[1]

\* C3: a call returns MismatchedLengths exactly when len(lhs) # len(rhs) * DEGREE,
\* and then lhs is unmodified and op was never invoked; otherwise it returns Ok.
C3_MismatchedLengths ==
    ext_pc = "returned" =>
        /\ ext_ret \in {"Ok", "MismatchedLengths"}
        /\ ext_ret = "MismatchedLengths" <=> Len0(lhs_in) # Len0(rhs) * pe.DEGREE
        /\ ext_ret = "MismatchedLengths" => (lhs = lhs_in /\ op_calls = 0)

\* a call with a non-empty lhs of the wrong length has returned the error
C3_Witness ==
    /\ ext_pc = "returned" /\ ext_ret = "MismatchedLengths"
    /\ Len0(lhs) > 0 /\ Len0(rhs) > 0

(***************************************************************************)
(* fri/common.rs: validate_round_vcss, calculate_fold_commit_rounds,       *)
(* calculate_fold_chunk_start_rounds, calculate_folding_arities            *)
(***************************************************************************)
\* bitwise and of two naturals
RECURSIVE BitAnd(_, _)
BitAnd(x, y) ==
    IF x = 0 \/ y = 0 THEN 0
    ELSE (x % 2) * (y % 2) + 2 * BitAnd(x \div 2, y \div 2)

\* usize::is_power_of_two
is_power_of_two(x) == x # 0 /\ BitAnd(x, x - 1) = 0

\* usize::trailing_zeros of a non-zero value
RECURSIVE trailing_zeros(_)
trailing_zeros(n) == IF n % 2 = 1 THEN 0 ELSE 1 + trailing_zeros(n \div 2)

\* p3_util::log2_strict_usize: res = n.trailing_zeros(), and the assertion
\* n >> res == 1 that panics unless n is a power of two
log2_strict_panics(n) == n = 0 \/ n \div (2 ^ trailing_zeros(n)) # 1

log2_strict_usize(n) == trailing_zeros(n)

\* ReedSolomonCode::log_len
log_len(code) == code.log_dim + code.log_inv_rate

\* the first check of validate_round_vcss, on one length
len_out_of_range_strict(code, len) ==
    len < 2 ^ code.log_inv_rate \/ len > 2 ^ log_len(code)

len_out_of_range(code, len) ==
    len <= 2 ^ code.log_inv_rate \/ len >= 2 ^ log_len(code)

validate_round_vcss(code, vcss) ==
    IF \E i \in DOMAIN vcss : len_out_of_range(code, vcss[i])
    THEN "RoundVCSLengthsOutOfRange"
    ELSE IF \E i \in DOMAIN vcss : ~is_power_of_two(vcss[i])
    THEN "RoundVCSLengthsNotPowerOfTwo"
    ELSE IF \E i \in DOMAIN vcss :
                i + 1 \in DOMAIN vcss /\ vcss[i] <= vcss[i + 1]
    THEN "RoundVCSLengthsNotDescending"
    ELSE "Ok"

calculate_fold_commit_rounds(code, vcss) ==
    LET v == validate_round_vcss(code, vcss)
    IN  IF v # "Ok" THEN [tag |-> v, rounds |-> EmptyArr]
        ELSE IF \E i \in DOMAIN vcss : log2_strict_panics(vcss[i])
        THEN [tag |-> "panic", rounds |-> EmptyArr]
        ELSE [tag |-> "Ok",
              rounds |-> [i \in DOMAIN vcss |->
                            log_len(code) - 1 - log2_strict_usize(vcss[i])]]

calculate_fold_chunk_start_rounds(fcr) ==
    [i \in Range0(Len0(fcr) + 1) |-> IF i = 0 THEN 0 ELSE fcr[i - 1] + 1]

\* usize subtraction where the build does not check overflow: a result below
\* zero wraps to 2^64 - k, which is written -k here (the value modulo 2^64)
wrapping_sub(a, b) == a - b

\* fold_chunk_start_rounds chained with total_fold_rounds
chain_once(starts, total) ==
    [i \in Range0(Len0(starts) + 1) |-> IF i < Len0(starts) THEN starts[i] ELSE total]

calculate_folding_arities_nochain(total, starts, checks) ==
    [tag |-> "Ok",
     arities |-> [i \in Range0(Len0(starts) - 1) |-> wrapping_sub(starts[i + 1], starts[i])]]

calculate_folding_arities(total, starts, checks) ==
    LET b == chain_once(starts, total)
        n == Len0(b) - 1
    IN  IF checks /\ \E i \in Range0(n) : b[i + 1] < b[i]
        THEN [tag |-> "panic", arities |-> EmptyArr]
        ELSE [tag |-> "Ok",
              arities |-> [i \in Range0(n) |-> wrapping_sub(b[i + 1], b[i])]]

\* ---- the inputs
RsCodes ==
    { [log_dim |-> d, log_inv_rate |-> r] : d \in 0 .. MaxLogLen, r \in 0 .. MaxLogLen }

VectorLens == 0 .. (2 ^ MaxLogLen + 1)

ArraysUpTo(n, S) == UNION { Arrays(k, S) : k \in 0 .. n }

FriInit ==
    /\ fri_call \in {"pipeline", "direct"}
    /\ IF fri_call = "pipeline"
       THEN /\ rs_code \in { c \in RsCodes : log_len(c) <= MaxLogLen }
            /\ round_vcss \in ArraysUpTo(MaxVcs, VectorLens)
            /\ fold_commit_rounds = EmptyArr
            /\ fri_pc = "commit"
       ELSE /\ rs_code = [log_dim |-> 0, log_inv_rate |-> 0]
            /\ round_vcss = EmptyArr
            /\ fold_commit_rounds \in ArraysUpTo(MaxVcs, 0 .. MaxLogLen)
            /\ fri_pc = "starts"
    /\ commit_ret = [tag |-> "none", rounds |-> EmptyArr]
    /\ fold_chunk_start_rounds = EmptyArr
    /\ total_fold_rounds = 0
    /\ overflow_checks \in BOOLEAN
    /\ folding_arities = [tag |-> "none", arities |-> EmptyArr]
    /\ ExtIdle /\ QIdle /\ ZcIdle /\ U8Idle /\ EncIdle /\ FcIdle

CalculateFoldCommitRounds ==
    /\ fri_pc = "commit"
    /\ commit_ret' = calculate_fold_commit_rounds(rs_code, round_vcss)
    /\ IF commit_ret'.tag = "Ok"
       THEN fold_commit_rounds' = commit_ret'.rounds /\ fri_pc' = "starts"
       ELSE fold_commit_rounds' = fold_commit_rounds /\ fri_pc' = "done"
    /\ UNCHANGED <<rs_code, round_vcss, fri_call, fold_chunk_start_rounds,
                   total_fold_rounds, overflow_checks, folding_arities>>
    /\ UNCHANGED friOthers

CalculateFoldChunkStartRounds ==
    /\ fri_pc = "starts"
    /\ fold_chunk_start_rounds' = calculate_fold_chunk_start_rounds(fold_commit_rounds)
    /\ fri_pc' = "arities"
    /\ UNCHANGED <<rs_code, round_vcss, fri_call, commit_ret, fold_commit_rounds,
                   total_fold_rounds, overflow_checks, folding_arities>>
    /\ UNCHANGED friOthers

CalculateFoldingArities ==
    /\ fri_pc = "arities"
    /\ \E total \in 0 .. (MaxLogLen + 1) :
         /\ total_fold_rounds' = total
         /\ folding_arities' =
              calculate_folding_arities(total, fold_chunk_start_rounds, overflow_checks)
    /\ fri_pc' = "done"
    /\ UNCHANGED <<rs_code, round_vcss, fri_call, commit_ret, fold_commit_rounds,
                   fold_chunk_start_rounds, overflow_checks>>
    /\ UNCHANGED friOthers

FriNext ==
    \/ CalculateFoldCommitRounds
    \/ CalculateFoldChunkStartRounds
    \/ CalculateFoldingArities

SpecFri == FriInit /\ [][FriNext]_vars

(***************************************************************************)
(* Claims about the round schedule (under SpecFri)                         *)
(***************************************************************************)
CommitReturned == fri_call = "pipeline" /\ fri_pc # "commit"

PowersOfTwo == { 2 ^ k : k \in 0 .. (MaxLogLen + 1) }

\* C4: calculate_fold_commit_rounds returns RoundVCSLengthsOutOfRange if some
\* length L has L <= 2^log_inv_rate or L >= 2^log_len; otherwise
\* RoundVCSLengthsNotPowerOfTwo if some length is no power of two; otherwise
\* RoundVCSLengthsNotDescending if the lengths are not strictly descending;
\* otherwise Ok with round_i = log_len - 1 - log2(L_i), one per descriptor, in order.
C4_FoldCommitRounds ==
    CommitReturned =>
        LET n  == Len0(round_vcss)
            ll == rs_code.log_dim + rs_code.log_inv_rate
        IN  IF \E i \in Range0(n) :
                  round_vcss[i] <= 2 ^ rs_code.log_inv_rate \/ round_vcss[i] >= 2 ^ ll
            THEN commit_ret.tag = "RoundVCSLengthsOutOfRange"
            ELSE IF \E i \in Range0(n) : round_vcss[i] \notin PowersOfTwo
            THEN commit_ret.tag = "RoundVCSLengthsNotPowerOfTwo"
            ELSE IF \E i, j \in Range0(n) : i < j /\ round_vcss[i] <= round_vcss[j]
            THEN commit_ret.tag = "RoundVCSLengthsNotDescending"
            ELSE /\ commit_ret.tag = "Ok"
                 /\ DOMAIN commit_ret.rounds = Range0(n)
                 /\ \A i \in Range0(n) :
                      /\ commit_ret.rounds[i] \in Nat
                      /\ 2 ^ (ll - 1 - commit_ret.rounds[i]) = round_vcss[i]

\* the call returned two rounds for two valid descriptors
C4_Witness ==
    /\ CommitReturned /\ commit_ret.tag = "Ok"
    /\ Len0(round_vcss) = 2
    /\ commit_ret.rounds[0] < commit_ret.rounds[1]

RECURSIVE SumArr(_, _)
SumArr(a, n) == IF n = 0 THEN 0 ELSE a[n - 1] + SumArr(a, n - 1)

AritiesReturned == fri_pc = "done" /\ folding_arities.tag # "none"

\* the boundaries: the start rounds, then total_fold_rounds
Boundaries == chain_once(fold_chunk_start_rounds, total_fold_rounds)

StartsAreAsClaimed ==
    /\ DOMAIN fold_chunk_start_rounds = Range0(Len0(fold_commit_rounds) + 1)
    /\ fold_chunk_start_rounds[0] = 0
    /\ \A i \in DOMAIN fold_commit_rounds :
         fold_chunk_start_rounds[i + 1] = fold_commit_rounds[i] + 1

AritiesAreAsClaimed ==
    /\ folding_arities.tag = "Ok"
    /\ DOMAIN folding_arities.arities = DOMAIN fold_chunk_start_rounds
    /\ \A i \in DOMAIN folding_arities.arities :
         /\ folding_arities.arities[i] \in Nat
         /\ folding_arities.arities[i] = Boundaries[i + 1] - Boundaries[i]
    /\ SumArr(folding_arities.arities, Len0(folding_arities.arities)) = total_fold_rounds

\* C5 as stated: for every commit_rounds list and every total_fold_rounds the
\* arities sum to total_fold_rounds and the boundaries never decrease.
C5_AnyListSumsToTotal ==
    AritiesReturned =>
        /\ StartsAreAsClaimed
        /\ AritiesAreAsClaimed
        /\ \A i \in DOMAIN fold_chunk_start_rounds : Boundaries[i] <= Boundaries[i + 1]

\* what calculate_fold_chunk_start_rounds requires of its argument (it is the
\* output of calculate_fold_commit_rounds: strictly increasing), and
\* total_fold_rounds not below the last start round
C5_Requires ==
    /\ \A i, j \in DOMAIN fold_commit_rounds :
         i < j => fold_commit_rounds[i] < fold_commit_rounds[j]
    /\ \A i \in DOMAIN fold_commit_rounds : fold_commit_rounds[i] + 1 <= total_fold_rounds

\* C5 amended: for every strictly increasing commit_rounds list and every
\* total_fold_rounds not below the last start round, starts[0] = 0,
\* starts[i+1] = commit_rounds[i] + 1, arities[i] = starts[i+1] - starts[i]
\* with total_fold_rounds the final boundary, the arities sum to
\* total_fold_rounds, and the start rounds strictly increase up to the final
\* boundary, which is not below the last of them.
C5_IncreasingListSumsToTotal ==
    (AritiesReturned /\ C5_Requires) =>
        /\ StartsAreAsClaimed
        /\ AritiesAreAsClaimed
        /\ \A i \in DOMAIN fold_chunk_start_rounds :
             /\ Boundaries[i] <= Boundaries[i + 1]
             /\ i + 1 \in DOMAIN fold_chunk_start_rounds => Boundaries[i] < Boundaries[i + 1]

\* the arities of a list of two commit rounds met its requirement
C5_Witness ==
    /\ AritiesReturned /\ C5_Requires
    /\ fri_call = "direct"
    /\ Len0(fold_commit_rounds) = 2
    /\ fold_commit_rounds[0] > 0
    /\ total_fold_rounds > fold_commit_rounds[1] + 1

\* every list the pipeline hands on meets the requirement on the commit rounds
C5_PipelineMeetsRequires ==
    (fri_call = "pipeline" /\ fri_pc \in {"starts", "arities", "done"} /\ commit_ret.tag = "Ok") =>
        /\ \A i, j \in DOMAIN fold_commit_rounds :
             i < j => fold_commit_rounds[i] < fold_commit_rounds[j]
        /\ \A i \in DOMAIN fold_commit_rounds : fold_commit_rounds[i] + 1 < rs_code.log_dim

(***************************************************************************)
(* fri/common.rs: calculate_n_test_queries, calculate_error_bound.         *)
(* The f64 values of the source are dyadic rationals here, computed        *)
(* exactly: per_query_err = (2^R + 1) / 2^(R+1) with R = log_inv_rate, and *)
(* total_err = T / 2^M with                                                *)
(*     M = N_BITS + (R+1) * n,                                             *)
(*     T = (log_dim + 2^log_len) * 2^((R+1)*n) + (2^R + 1)^n * 2^N_BITS.   *)
(* Integers wider than a machine word are sequences of limbs, lowest first.*)
(***************************************************************************)
Limb == 2 ^ LimbBits

RECURSIVE BigFromInt(_)
BigFromInt(v) == IF v = 0 THEN <<>> ELSE <<v % Limb>> \o BigFromInt(v \div Limb)

\* x * k + c for a small k
RECURSIVE BigMulSmall(_, _, _)
BigMulSmall(x, k, c) ==
    IF x = <<>> THEN BigFromInt(c)
    ELSE LET v == Head(x) * k + c
         IN  <<v % Limb>> \o BigMulSmall(Tail(x), k, v \div Limb)

RECURSIVE BigAdd(_, _, _)
BigAdd(x, y, c) ==
    IF x = <<>> /\ y = <<>> THEN BigFromInt(c)
    ELSE LET a == IF x = <<>> THEN 0 ELSE Head(x)
             b == IF y = <<>> THEN 0 ELSE Head(y)
             v == a + b + c
         IN  <<v % Limb>> \o BigAdd(IF x = <<>> THEN x ELSE Tail(x),
                                    IF y = <<>> THEN y ELSE Tail(y), v \div Limb)

\* x * 2^b
BigShl(x, b) ==
    [i \in 1 .. (b \div LimbBits) |-> 0] \o BigMulSmall(x, 2 ^ (b % LimbBits), 0)

\* x * y, splitting y in halves
RECURSIVE BigMul(_, _)
BigMul(x, y) ==
    IF y = <<>> THEN <<>>
    ELSE IF Len(y) = 1 THEN BigMulSmall(x, y[1], 0)
    ELSE LET h == Len(y) \div 2
         IN  BigAdd(BigMul(x, SubSeq(y, 1, h)),
                    [i \in 1 .. h |-> 0] \o BigMul(x, SubSeq(y, h + 1, Len(y))), 0)

\* k^n for a small k, by squaring
RECURSIVE BigPow(_, _)
BigPow(k, n) ==
    IF n = 0 THEN <<1>>
    ELSE LET h == BigPow(k, n \div 2)
         IN  IF n % 2 = 0 THEN BigMul(h, h) ELSE BigMulSmall(BigMul(h, h), k, 0)

RECURSIVE BigStrip(_)
BigStrip(x) ==
    IF x # <<>> /\ x[Len(x)] = 0 THEN BigStrip(SubSeq(x, 1, Len(x) - 1)) ELSE x

RECURSIVE IntBitLen(_)
IntBitLen(v) == IF v = 0 THEN 0 ELSE 1 + IntBitLen(v \div 2)

\* the number of bits of x
BigBitLen(x) ==
    LET y == BigStrip(x)
    IN  IF y = <<>> THEN 0 ELSE (Len(y) - 1) * LimbBits + IntBitLen(y[Len(y)])

BigIsPow2(x) ==
    LET y == BigStrip(x)
    IN  /\ y # <<>>
        /\ \A i \in 1 .. (Len(y) - 1) : y[i] = 0
        /\ y[Len(y)] = 2 ^ (IntBitLen(y[Len(y)]) - 1)

\* the least c with x <= 2^c, for x >= 1
BigCeilLog2(x) == IF BigIsPow2(x) THEN BigBitLen(x) - 1 ELSE BigBitLen(x)

\* per_query_err^n * 2^((R+1)*n) = (2^R + 1)^n
per_query_num(code, n) == BigPow(2 ^ code.log_inv_rate + 1, n)

\* per_query_err^n <= 2^-bits
query_err_at_most(bits, code, n) ==
    BigCeilLog2(per_query_num(code, n)) + bits <= (code.log_inv_rate + 1) * n

\* the least n in lo..hi with per_query_err^n <= 2^-bits (hi is such an n)
RECURSIVE least_n_queries(_, _, _, _)
least_n_queries(bits, code, lo, hi) ==
    IF lo >= hi THEN hi
    ELSE LET mid == (lo + hi) \div 2
         IN  IF query_err_at_most(bits, code, mid)
             THEN least_n_queries(bits, code, lo, mid)
             ELSE least_n_queries(bits, code, mid + 1, hi)

\* n_queries before the loop: (-(security_bits as f64) / per_query_err.log2())
\* .ceil() as usize, the least n with per_query_err^n <= 2^-security_bits
\* (per_query_err <= 3/4 puts it below 3 * security_bits); for
\* log_inv_rate = 0 the quotient is -inf or NaN, which the cast turns into 0
initial_n_queries(bits, code) ==
    IF code.log_inv_rate = 0 THEN 0
    ELSE least_n_queries(bits, code, 0, 3 * bits)

\* total_err * 2^M
total_err_num_nofold(code, nbits, n) ==
    BigAdd(BigShl(BigFromInt(code.log_dim), (code.log_inv_rate + 1) * n),
           BigShl(per_query_num(code, n), nbits), 0)

total_err_num(code, nbits, n) ==
    BigAdd(BigShl(BigAdd(BigFromInt(code.log_dim), BigShl(<<1>>, log_len(code)), 0),
                  (code.log_inv_rate + 1) * n),
           BigShl(per_query_num(code, n), nbits), 0)

\* -total_err.log2() as usize: the cast truncates, and turns a negative value into 0
calculate_error_bound(code, nbits, n_queries) ==
    LET M    == nbits + (code.log_inv_rate + 1) * n_queries
        bits == M - BigCeilLog2(total_err_num(code, nbits, n_queries))
    IN  IF bits < 0 THEN 0 ELSE bits

\* for _ in 0..10
N_ATTEMPTS == 10

RECURSIVE n_test_queries_loop(_, _, _, _, _)
n_test_queries_loop(bits, code, nbits, n_queries, left) ==
    IF left = 0 THEN [tag |-> "ParameterError", n |-> 0]
    ELSE IF calculate_error_bound(code, nbits, n_queries) >= bits
    THEN [tag |-> "Ok", n |-> n_queries]
    ELSE n_test_queries_loop(bits, code, nbits, n_queries + 1, left - 1)

calculate_n_test_queries(bits, code, nbits) ==
    n_test_queries_loop(bits, code, nbits, initial_n_queries(bits, code), N_ATTEMPTS)

\* ---- the inputs: small codes over small fields, and the three calls of
\* test_calculate_n_test_queries(_unsatisfiable) over BinaryField128b
FieldBits == {8, 16, 32}

TestCalls ==
    { [bits |-> 96,  code |-> [log_dim |-> 28, log_inv_rate |-> 1], nbits |-> 128],
      [bits |-> 96,  code |-> [log_dim |-> 28, log_inv_rate |-> 2], nbits |-> 128],
      [bits |-> 128, code |-> [log_dim |-> 28, log_inv_rate |-> 1], nbits |-> 128] }

SmallCalls ==
    { [bits |-> b, code |-> [log_dim |-> d, log_inv_rate |-> r], nbits |-> f] :
        b \in 0 .. MaxSecurityBits, d \in 0 .. MaxLogDim, r \in 0 .. 2, f \in FieldBits }

QInit ==
    /\ \E c \in TestCalls \cup SmallCalls :
         /\ security_bits = c.bits
         /\ q_code = c.code
         /\ q_field_bits = c.nbits
    /\ q_pc = "call" /\ q_n0 = 0
    /\ q_ret = [tag |-> "none", n |-> 0]
    /\ ExtIdle /\ FriIdle /\ ZcIdle /\ U8Idle /\ EncIdle /\ FcIdle

CalculateNTestQueries ==
    /\ q_pc = "call"
    /\ q_n0' = initial_n_queries(security_bits, q_code)
    /\ q_ret' = calculate_n_test_queries(security_bits, q_code, q_field_bits)
    /\ q_pc' = "returned"
    /\ UNCHANGED <<security_bits, q_code, q_field_bits>>
    /\ UNCHANGED qOthers

QNext == CalculateNTestQueries

SpecQ == QInit /\ [][QNext]_vars
(***************************************************************************)
(* Claims about calculate_n_test_queries (under SpecQ)                     *)
(***************************************************************************)
QReturned == q_pc = "returned"

\* 2^M * (log_dim/field_size + code_len/field_size + per_query_err^n),
\* M = N_BITS + (R+1) * n
C6_TotalErrNum(n) ==
    LET R == q_code.log_inv_rate
    IN  BigAdd(BigShl(BigFromInt(q_code.log_dim + 2 ^ (q_code.log_dim + R)), (R + 1) * n),
               BigShl(BigPow(2 ^ R + 1, n), q_field_bits), 0)

\* n queries give at least security_bits bits: total_err <= 2^-security_bits
\* (the bound is a usize, so every n gives at least 0 bits)
C6_GivesBits(n) ==
    \/ security_bits = 0
    \/ BigCeilLog2(BigShl(C6_TotalErrNum(n), security_bits))
           <= q_field_bits + (q_code.log_inv_rate + 1) * n

\* n = ceil(security_bits / -log2(per_query_err)), in machine integers:
\* per_query_err^n <= 2^-security_bits < per_query_err^(n-1)
C6_IsCeil(n) ==
    LET R == q_code.log_inv_rate
    IN  /\ n \in Nat
        /\ (2 ^ R + 1) ^ n * 2 ^ security_bits <= 2 ^ ((R + 1) * n)
        /\ n > 0 => (2 ^ R + 1) ^ (n - 1) * 2 ^ security_bits > 2 ^ ((R + 1) * (n - 1))

C6_IsTestCall(bits, r) ==
    /\ security_bits = bits /\ q_field_bits = 128
    /\ q_code = [log_dim |-> 28, log_inv_rate |-> r]

\* C6: calculate_n_test_queries starts at n0 = ceil(security_bits /
\* -log2(0.5*(1 + 2^-log_inv_rate))) and returns the least n in n0..n0+9 whose
\* combined error bound gives at least security_bits bits, ParameterError when
\* none of the ten does; over a 128-bit field with log_dim = 28 it returns 232
\* for 96 bits at log_inv_rate 1, 143 for 96 bits at log_inv_rate 2, and
\* ParameterError for 128 bits at log_inv_rate 1.
C6_NTestQueries ==
    QReturned =>
        /\ (q_code.log_inv_rate >= 1 /\ security_bits <= MaxSecurityBits) => C6_IsCeil(q_n0)
        /\ C6_IsTestCall(96, 1) => q_n0 = 232
        /\ C6_IsTestCall(96, 2) => q_n0 = 142
        /\ C6_IsTestCall(128, 1) => q_n0 = 309
        /\ LET good == { n \in q_n0 .. (q_n0 + 9) : C6_GivesBits(n) }
           IN  IF good = {} THEN q_ret.tag = "ParameterError"
               ELSE /\ q_ret.tag = "Ok"
                    /\ q_ret.n \in good
                    /\ \A n \in good : q_ret.n <= n
        /\ C6_IsTestCall(96, 1) => q_ret = [tag |-> "Ok", n |-> 232]
        /\ C6_IsTestCall(96, 2) => q_ret = [tag |-> "Ok", n |-> 143]
        /\ C6_IsTestCall(128, 1) => q_ret.tag = "ParameterError"

\* the call for 96 bits at rate 1/4 returned 143, one above where it started
C6_Witness ==
    /\ QReturned /\ C6_IsTestCall(96, 2)
    /\ q_n0 = 142 /\ q_ret = [tag |-> "Ok", n |-> 143]

\* a small call ran out of attempts although the rate is below 1
C6_WitnessSmallError ==
    /\ QReturned /\ q_code.log_inv_rate >= 1 /\ security_bits <= MaxSecurityBits
    /\ q_ret.tag = "ParameterError"

(***************************************************************************)
(* sumcheck/prove/batch_prove_univariate_zerocheck.rs                      *)
(* A prover is its n_vars, what its domain_size answers at its skip depth, *)
(* and its phase: "univariate", "executed" (execute_univariate_round was   *)
(* called) or "folded" (fold_univariate_round consumed it). A round        *)
(* message is its zero-prefix length and the length of its Lagrange        *)
(* representation; the field values are left out. The transcript is a      *)
(* deterministic challenger: a sampled value is named by the position of   *)
(* the sample among the transcript's operations.                           *)
(***************************************************************************)
Min(a, b) == IF a <= b THEN a ELSE b

MaxOf(S) == IF S = {} THEN 0 ELSE LET x == CHOOSE y \in S : \A z \in S : z <= y IN x

\* binius_utils::sorting::is_sorted_ascending
is_sorted_ascending(a) == \A i \in DOMAIN a : (i + 1 \in DOMAIN a) => a[i] <= a[i + 1]

\* Iterator::rev
rev(a) == [i \in DOMAIN a |-> a[Len0(a) - 1 - i]]

\* LagrangeRoundEvals::zeros
LagrangeZeros(n) == [zeros_prefix_len |-> n, len |-> n]

\* LagrangeRoundEvals::add_assign_lagrange: fails on messages of different
\* lengths; the sum is known to be zero where both are
add_assign_fails(a, b) == a.len # b.len

add_assign_lagrange(a, b) ==
    [zeros_prefix_len |-> Min(a.zeros_prefix_len, b.zeros_prefix_len), len |-> a.len]

\* CanSample::sample on a transcript
sample(t) == Len(t) + 1

\* provers.iter().map(|prover| prover.n_vars())
n_vars_of(ps) == [i \in DOMAIN ps |-> ps[i].n_vars]

provers_in_order_norev(ps) == is_sorted_ascending(n_vars_of(ps))

\* the provers are in descending order by n_vars
provers_in_order(ps) == is_sorted_ascending(rev(n_vars_of(ps)))

max_n_vars(ps) == IF Len0(ps) = 0 THEN 0 ELSE ps[0].n_vars

min_n_vars(ps) == IF Len0(ps) = 0 THEN 0 ELSE ps[Len0(ps) - 1].n_vars

too_many_skipped_rounds(ps, skip) == max_n_vars(ps) - min_n_vars(ps) > skip

\* the skip depth of prover i, misaligned: skip_rounds itself
prover_skip_rounds_unaligned(ps, skip, i) == skip

\* the skip depth of prover i: skip_rounds + prover.n_vars() - max_n_vars
prover_skip_rounds(ps, skip, i) == skip + ps[i].n_vars - max_n_vars(ps)

\* provers.iter().map(|prover| prover.domain_size(..)).max().unwrap_or(0)
calc_max_domain_size(ps) == MaxOf({ ps[i].domain_size : i \in DOMAIN ps })

zeros_prefix_len_nomin(ps, skip, mds) ==
    2 ^ (skip + min_n_vars(ps) - max_n_vars(ps))

\* (1 << (skip_rounds + min_n_vars - max_n_vars)).min(max_domain_size)
zeros_prefix_len(ps, skip, mds) ==
    Min(2 ^ (skip + min_n_vars(ps) - max_n_vars(ps)), mds)

\* ---- the inputs
DomainSizes == {1, 3}

ProverInputs ==
    [n_vars : 0 .. MaxNVars, domain_size : DomainSizes, phase : {"univariate"}]

\* what execute_univariate_round of prover i may answer: an error, or a
\* message with the zero prefix of its skip depth, with none, or all zeros,
\* or a message of another length
ExecuteAnswers(ps, skip, i, mds) ==
    { [ok |-> FALSE, evals |-> LagrangeZeros(0)] }
    \cup { [ok |-> TRUE, evals |-> [zeros_prefix_len |-> z, len |-> mds]] :
             z \in { Min(2 ^ prover_skip_rounds(ps, skip, i), mds), 0, mds } }
    \cup { [ok |-> TRUE, evals |-> [zeros_prefix_len |-> 0, len |-> mds + 1]] }

ZcInit ==
    /\ provers \in ArraysUpTo(MaxProvers, ProverInputs)
    /\ skip_rounds \in 0 .. MaxSkipRounds
    /\ transcript = <<>>
    /\ zc_pc = "start" /\ zc_i = 0 /\ max_domain_size = 0 /\ batch_coeffs = <<>>
    /\ round_evals = [zeros_prefix_len |-> 0, len |-> 0]
    /\ univariate_challenge = 0 /\ reduction_provers = <<>>
    /\ zc_ret = "none" /\ zc_log = <<>>
    /\ ExtIdle /\ FriIdle /\ QIdle /\ U8Idle /\ EncIdle /\ FcIdle

ZcReturn(r) == zc_ret' = r /\ zc_pc' = "returned"

\* lines 85-87
ZcClaimsOutOfOrder ==
    /\ zc_pc = "start"
    /\ ~provers_in_order(provers)
    /\ ZcReturn("ClaimsOutOfOrder")
    /\ UNCHANGED <<provers, skip_rounds, transcript, zc_i, max_domain_size, batch_coeffs,
                   round_evals, univariate_challenge, reduction_provers, zc_log>>
    /\ UNCHANGED zcOthers

\* lines 89-94
ZcTooManySkippedRounds ==
    /\ zc_pc = "start"
    /\ provers_in_order(provers)
    /\ too_many_skipped_rounds(provers, skip_rounds)
    /\ ZcReturn("TooManySkippedRounds")
    /\ UNCHANGED <<provers, skip_rounds, transcript, zc_i, max_domain_size, batch_coeffs,
                   round_evals, univariate_challenge, reduction_provers, zc_log>>
    /\ UNCHANGED zcOthers

\* lines 96-103
ZcBegin ==
    /\ zc_pc = "start"
    /\ provers_in_order(provers)
    /\ ~too_many_skipped_rounds(provers, skip_rounds)
    /\ max_domain_size' = calc_max_domain_size(provers)
    /\ round_evals' = LagrangeZeros(max_domain_size')
    /\ batch_coeffs' = <<>>
    /\ zc_i' = 0
    /\ zc_pc' = IF Len0(provers) = 0 THEN "check" ELSE "coeff"
    /\ UNCHANGED <<provers, skip_rounds, transcript, univariate_challenge,
                   reduction_provers, zc_ret, zc_log>>
    /\ UNCHANGED zcOthers

\* lines 105-106
ZcSampleCoeff ==
    /\ zc_pc = "coeff"
    /\ LET next_batch_coeff == sample(transcript)
       IN  /\ transcript' = Append(transcript, <<"sample", next_batch_coeff>>)
           /\ zc_log' = Append(zc_log, <<"sample", next_batch_coeff>>)
           /\ batch_coeffs' = Append(batch_coeffs, next_batch_coeff)
    /\ zc_pc' = "execute"
    /\ UNCHANGED <<provers, skip_rounds, zc_i, max_domain_size, round_evals,
                   univariate_challenge, reduction_provers, zc_ret>>
    /\ UNCHANGED zcOthers

\* lines 108-114
ZcExecute ==
    /\ zc_pc = "execute"
    /\ LET next_batch_coeff == batch_coeffs[Len(batch_coeffs)]
           skip == prover_skip_rounds(provers, skip_rounds, zc_i)
       IN  /\ zc_log' = Append(zc_log,
                          <<"execute", zc_i, skip, max_domain_size, next_batch_coeff>>)
           /\ provers' = [provers EXCEPT ![zc_i].phase = "executed"]
           /\ \E ans \in ExecuteAnswers(provers, skip_rounds, zc_i, max_domain_size) :
                IF ~ans.ok
                THEN /\ ZcReturn("ProverError")
                     /\ UNCHANGED <<round_evals, zc_i>>
                ELSE IF add_assign_fails(round_evals, ans.evals)
                THEN /\ ZcReturn("LagrangeRoundEvalsSizeMismatch")
                     /\ UNCHANGED <<round_evals, zc_i>>
                ELSE /\ round_evals' = add_assign_lagrange(round_evals, ans.evals)
                     /\ zc_i' = zc_i + 1
                     /\ zc_pc' = IF zc_i + 1 = Len0(provers) THEN "check" ELSE "coeff"
                     /\ UNCHANGED zc_ret
    /\ UNCHANGED <<skip_rounds, transcript, max_domain_size, batch_coeffs,
                   univariate_challenge, reduction_provers>>
    /\ UNCHANGED zcOthers

\* lines 117-120
ZcCheckZerosPrefix ==
    /\ zc_pc = "check"
    /\ IF zeros_prefix_len(provers, skip_rounds, max_domain_size)
              # round_evals.zeros_prefix_len
       THEN ZcReturn("IncorrectZerosPrefixLen")
       ELSE zc_pc' = "write" /\ UNCHANGED zc_ret
    /\ UNCHANGED <<provers, skip_rounds, transcript, zc_i, max_domain_size, batch_coeffs,
                   round_evals, univariate_challenge, reduction_provers, zc_log>>
    /\ UNCHANGED zcOthers

\* line 122
ZcWrite ==
    /\ zc_pc = "write"
    /\ transcript' = Append(transcript, <<"write", round_evals>>)
    /\ zc_log' = Append(zc_log, <<"write", round_evals>>)
    /\ zc_pc' = "challenge"
    /\ UNCHANGED <<provers, skip_rounds, zc_i, max_domain_size, batch_coeffs,
                   round_evals, univariate_challenge, reduction_provers, zc_ret>>
    /\ UNCHANGED zcOthers

\* lines 123-125
ZcSampleChallenge ==
    /\ zc_pc = "challenge"
    /\ univariate_challenge' = sample(transcript)
    /\ transcript' = Append(transcript, <<"sample", univariate_challenge'>>)
    /\ zc_log' = Append(zc_log, <<"sample", univariate_challenge'>>)
    /\ reduction_provers' = <<>>
    /\ zc_i' = 0
    /\ zc_pc' = IF Len0(provers) = 0 THEN "finish" ELSE "fold"
    /\ UNCHANGED <<provers, skip_rounds, max_domain_size, batch_coeffs,
                   round_evals, zc_ret>>
    /\ UNCHANGED zcOthers

\* the challenge handed to fold_univariate_round, taken from the wrong place
fold_challenge_coeff(coeffs, challenge) == coeffs[Len(coeffs)]

\* the challenge handed to fold_univariate_round
fold_challenge(coeffs, challenge) == challenge

\* lines 126-129
ZcFold ==
    /\ zc_pc = "fold"
    /\ LET ch == fold_challenge(batch_coeffs, univariate_challenge)
       IN  /\ zc_log' = Append(zc_log, <<"fold", zc_i, ch>>)
           /\ provers' = [provers EXCEPT ![zc_i].phase = "folded"]
           /\ \E ok \in BOOLEAN :
                IF ok
                THEN /\ reduction_provers' =
                          Append(reduction_provers, [of |-> zc_i, challenge |-> ch])
                     /\ zc_i' = zc_i + 1
                     /\ zc_pc' = IF zc_i + 1 = Len0(provers) THEN "finish" ELSE "fold"
                     /\ UNCHANGED zc_ret
                ELSE /\ ZcReturn("ProverError")
                     /\ UNCHANGED <<reduction_provers, zc_i>>
    /\ UNCHANGED <<skip_rounds, transcript, max_domain_size, batch_coeffs,
                   round_evals, univariate_challenge>>
    /\ UNCHANGED zcOthers

\* lines 131-141
ZcFinish ==
    /\ zc_pc = "finish"
    /\ ZcReturn("Ok")
    /\ UNCHANGED <<provers, skip_rounds, transcript, zc_i, max_domain_size, batch_coeffs,
                   round_evals, univariate_challenge, reduction_provers, zc_log>>
    /\ UNCHANGED zcOthers

ZcNext ==
    \/ ZcClaimsOutOfOrder
    \/ ZcTooManySkippedRounds
    \/ ZcBegin
    \/ ZcSampleCoeff
    \/ ZcExecute
    \/ ZcCheckZerosPrefix
    \/ ZcWrite
    \/ ZcSampleChallenge
    \/ ZcFold
    \/ ZcFinish

SpecZc == ZcInit /\ [][ZcNext]_vars

\* ---- claims on batch_prove_zerocheck_univariate_round
ZcNVars(i) == provers[i].n_vars

ZcSomeLaterHasMore ==
    \E i, j \in DOMAIN provers : i < j /\ ZcNVars(i) < ZcNVars(j)

ZcLargest == IF Len0(provers) = 0 THEN 0 ELSE MaxOf({ ZcNVars(i) : i \in DOMAIN provers })

ZcSmallest ==
    IF Len0(provers) = 0 THEN 0
    ELSE CHOOSE n \in { ZcNVars(i) : i \in DOMAIN provers } :
            \A i \in DOMAIN provers : n <= ZcNVars(i)

ZcUntouched ==
    /\ transcript = <<>>
    /\ zc_log = <<>>
    /\ \A i \in DOMAIN provers : provers[i].phase = "univariate"

\* C7: the call returns ClaimsOutOfOrder exactly when some prover has more
\* variables than an earlier one, and TooManySkippedRounds exactly when the
\* provers are in order and the largest n_vars exceeds the smallest by more
\* than skip_rounds; with either error nothing was sampled from or written
\* to the transcript and no prover was executed or folded.
C7_ValidationBeforeAnyUse ==
    (zc_pc \notin {"idle", "start"}) =>
        /\ (zc_ret = "ClaimsOutOfOrder") <=> ZcSomeLaterHasMore
        /\ (zc_ret = "TooManySkippedRounds") <=>
              (~ZcSomeLaterHasMore /\ ZcLargest - ZcSmallest > skip_rounds)
        /\ (zc_ret \in {"ClaimsOutOfOrder", "TooManySkippedRounds"}) => ZcUntouched

C7_Witness ==
    /\ zc_ret = "TooManySkippedRounds"
    /\ Len0(provers) = 2 /\ ZcNVars(0) = 2 /\ ZcNVars(1) = 0 /\ skip_rounds = 1

C7_WitnessOutOfOrder ==
    /\ zc_ret = "ClaimsOutOfOrder"
    /\ Len0(provers) = 2 /\ ZcNVars(0) < ZcNVars(1)

ZcExpectedPrefix ==
    Min(2 ^ (skip_rounds + ZcSmallest - ZcLargest), max_domain_size)

ZcAllExecuted ==
    /\ zc_pc \notin {"idle", "start", "coeff", "execute"}
    /\ zc_ret \notin {"ClaimsOutOfOrder", "TooManySkippedRounds", "ProverError",
                      "LagrangeRoundEvalsSizeMismatch"}
       \/ \E k \in DOMAIN zc_log : zc_log[k][1] = "write"

ZcWritten == { k \in DOMAIN zc_log : zc_log[k][1] = "write" }

ZcFolded == { k \in DOMAIN zc_log : zc_log[k][1] = "fold" }

\* C8: once every prover was executed and accumulated, the call fails with
\* IncorrectZerosPrefixLen exactly when the zero-prefix length of the
\* accumulated message differs from
\* min(2^(skip_rounds + min_n_vars - max_n_vars), max_domain_size); a message
\* that was written has that zero-prefix length, and with this failure
\* nothing was written and no prover was folded.
C8_ZerosPrefixLen ==
    /\ (ZcAllExecuted /\ zc_pc # "check") =>
          ((zc_ret = "IncorrectZerosPrefixLen")
              <=> (round_evals.zeros_prefix_len # ZcExpectedPrefix))
    /\ (zc_ret = "IncorrectZerosPrefixLen") =>
          /\ \A i \in DOMAIN provers : provers[i].phase = "executed"
          /\ ZcWritten = {} /\ ZcFolded = {}
          /\ \A k \in DOMAIN transcript : transcript[k][1] # "write"
    /\ \A k \in ZcWritten : zc_log[k][2].zeros_prefix_len = ZcExpectedPrefix
    /\ (zc_ret = "Ok") =>
          /\ ZcWritten # {}
          /\ round_evals.zeros_prefix_len = ZcExpectedPrefix

\* the failure, where the domain is what bounds the expected prefix
C8_Witness ==
    /\ zc_ret = "IncorrectZerosPrefixLen"
    /\ Len0(provers) = 2
    /\ max_domain_size < 2 ^ (skip_rounds + ZcSmallest - ZcLargest)
    /\ round_evals.zeros_prefix_len # max_domain_size

C8_WitnessOk ==
    /\ zc_ret = "Ok"
    /\ Len0(provers) = 2
    /\ max_domain_size < 2 ^ (skip_rounds + ZcSmallest - ZcLargest)
    /\ round_evals.zeros_prefix_len = max_domain_size

ZcN == Len0(provers)

ZcEventsInOrder ==
    /\ \A k \in DOMAIN zc_log : \A m \in DOMAIN zc_log :
          /\ (zc_log[k][1] = "execute" /\ zc_log[m][1] \in {"write", "fold"}) => k < m
          /\ (zc_log[k][1] = "write" /\ zc_log[m][1] = "fold") => k < m
    /\ Cardinality(ZcWritten) <= 1

\* C9: on a successful run of N provers the calls are, in this order: for
\* each prover in input order a sampled coefficient and then that prover's
\* execute_univariate_round with its aligned skip depth, max_domain_size and
\* that coefficient; one write of the accumulated message of length
\* max_domain_size; one sampled challenge; each prover's
\* fold_univariate_round in input order with that challenge. The output has
\* the N coefficients and the N continuation provers in input order. In no
\* state is a prover folded before the write or executed after a fold.
C9_EventOrder ==
    /\ ZcEventsInOrder
    /\ (zc_ret = "Ok") =>
          /\ Len(zc_log) = 3 * ZcN + 2
          /\ \A i \in Range0(ZcN) :
                /\ zc_log[2 * i + 1][1] = "sample"
                /\ zc_log[2 * i + 2] =
                      <<"execute", i, skip_rounds + ZcNVars(i) - ZcLargest,
                        max_domain_size, zc_log[2 * i + 1][2]>>
                /\ batch_coeffs[i + 1] = zc_log[2 * i + 1][2]
                /\ zc_log[2 * ZcN + 3 + i] = <<"fold", i, univariate_challenge>>
                /\ reduction_provers[i + 1] =
                      [of |-> i, challenge |-> univariate_challenge]
          /\ zc_log[2 * ZcN + 1][1] = "write"
          /\ zc_log[2 * ZcN + 1][2].len = max_domain_size
          /\ zc_log[2 * ZcN + 2] = <<"sample", univariate_challenge>>
          /\ \A k \in DOMAIN zc_log : \A m \in DOMAIN zc_log :
                (zc_log[k][1] = "sample" /\ zc_log[m][1] = "sample" /\ k # m)
                    => zc_log[k][2] # zc_log[m][2]
          /\ Len(batch_coeffs) = ZcN
          /\ Len(reduction_provers) = ZcN
          /\ \A i \in DOMAIN provers : provers[i].phase = "folded"

C9_Witness ==
    /\ zc_ret = "Ok"
    /\ ZcN = 2
    /\ ZcNVars(0) > ZcNVars(1)
    /\ skip_rounds = 2

(***************************************************************************)
(* circuits/src/lasso/u8mul.rs, the witness branch of u8mul.               *)
(* A usize that may need more than 31 bits is kept as <<high, low>> with   *)
(* the low 16 bits in low; a u32 is <<high u16, low u16>>. A B16 or B32    *)
(* scalar is the integer it was made from.                                 *)
(***************************************************************************)
T_LOG_SIZE == 16

Half == 2 ^ 16

RECURSIVE BitOr(_, _)
BitOr(x, y) ==
    IF x = 0 THEN y
    ELSE IF y = 0 THEN x
    ELSE (IF x % 2 = 1 \/ y % 2 = 1 THEN 1 ELSE 0) + 2 * BitOr(x \div 2, y \div 2)

\* x << k and x >> k on values that stay below 2^31
Shl(x, k) == x * 2 ^ k

Shr(x, k) == x \div 2 ^ k

\* x << 16 as <<high, low>>
Shl16(x) == <<x, 0>>

\* <<high, low>> | y
WideOr(w, y) == <<BitOr(w[1], y \div Half), BitOr(w[2], y % Half)>>

\* as u32
as_u32(w) == <<w[1] % Half, w[2]>>

\* as u16
as_u16(x) == x % Half

\* a_int << 4 | b_int
lookup_index_nibble(a_int, b_int) == BitOr(Shl(a_int, 4), b_int)

\* a_int << 8 | b_int
lookup_index(a_int, b_int) == BitOr(Shl(a_int, 8), b_int)

\* lookup_index << 8 | ab_product, the windows overlapping
wide_combined_overlap(index, ab_product) ==
    WideOr(<<index \div 256, (index % 256) * 256>>, ab_product)

\* lookup_index << 16 | ab_product
wide_combined(index, ab_product) == WideOr(Shl16(index), ab_product)

\* B32::new((lookup_index << 16 | ab_product) as u32)
combine(index, ab_product) == as_u32(wide_combined(index, ab_product))

\* the body of the loop over the input rows
row_lookup_u(a, b) == combine(lookup_index(a, b), a * b)

row_product(a, b) == as_u16(a * b)

\* the mapping entry with the bytes exchanged
row_u_to_t_swapped(a, b) == lookup_index(b, a)

\* *u_to_t = lookup_index
row_u_to_t(a, b) == lookup_index(a, b)

\* the body of the loop over the rows of the table
table_a_int(i) == BitAnd(Shr(i, 8), 255)

table_b_int(i) == BitAnd(i, 255)

table_lookup_index(i) == lookup_index(table_a_int(i), table_b_int(i))

table_row(i) == combine(table_lookup_index(i), table_a_int(i) * table_b_int(i))

\* the table loop, over make_underliers::<_, B32>(T_LOG_SIZE)
TableRows == Range0(2 ^ T_LOG_SIZE)

\* assert_eq!(lookup_index, i) fails at some row
table_assert_fails == \E i \in TableRows : table_lookup_index(i) # i

lookup_t_filled == [i \in TableRows |-> table_row(i)]

\* izip! stops with its shortest column
izip_len(a, b, n) == Min(Min(Len0(a), Len0(b)), n)

\* ---- the inputs: the columns (mult_a, mult_b) are the runs of 2^log_size
\* consecutive rows of this sample, from every start
SamplePairs ==
    << <<3, 5>>, <<255, 255>>, <<0, 200>>, <<128, 1>>, <<16, 16>>, <<255, 0>>,
       <<1, 127>>, <<127, 129>>, <<2, 128>>, <<85, 170>>, <<170, 85>>, <<15, 240>>,
       <<200, 200>>, <<1, 1>>, <<0, 0>>, <<64, 4>>, <<4, 64>>, <<254, 255>>,
       <<129, 129>>, <<100, 3>>, <<7, 7>>, <<250, 6>>, <<31, 33>>, <<192, 168>>,
       <<10, 10>>, <<99, 1>>, <<222, 111>>, <<5, 3>> >>

RowInputs(ls) ==
    { [i \in Range0(2 ^ ls) |-> SamplePairs[((start + i) % Len(SamplePairs)) + 1]] :
        start \in Range0(Len(SamplePairs)) }

U8Init ==
    /\ has_witness \in BOOLEAN
    /\ has_inputs \in BOOLEAN
    /\ has_witness \/ ~has_inputs
    /\ log_size \in 0 .. MaxLogSize
    /\ IF has_inputs
       THEN \E rows \in RowInputs(log_size) :
               /\ mult_a_ints = [i \in DOMAIN rows |-> rows[i][1]]
               /\ mult_b_ints = [i \in DOMAIN rows |-> rows[i][2]]
       ELSE mult_a_ints = EmptyArr /\ mult_b_ints = EmptyArr
    /\ product_scalars = EmptyArr /\ lookup_u_scalars = EmptyArr
    /\ lookup_t_scalars = EmptyArr
    /\ u_to_t_mapping = [some |-> FALSE, val |-> EmptyArr]
    /\ lasso_arg = NoLassoCall
    /\ u8_pc = "start"
    /\ ExtIdle /\ FriIdle /\ QIdle /\ ZcIdle /\ EncIdle /\ FcIdle

\* lines 123-131: lasso is called with u_to_t_mapping and may fail
LassoCall(mapping) ==
    /\ lasso_arg' = [called |-> TRUE, u_to_t_mapping |-> mapping]
    /\ \E lasso_ok \in BOOLEAN : u8_pc' = IF lasso_ok THEN "done" ELSE "err_lasso"

\* lines 72-131, the branch taken with a witness
U8MulWitness ==
    /\ u8_pc = "start"
    /\ has_witness /\ has_inputs
    /\ LET n == 2 ^ log_size
           m == izip_len(mult_a_ints, mult_b_ints, n)
           a(i) == mult_a_ints[i]
           b(i) == mult_b_ints[i]
       IN  IF table_assert_fails
           THEN /\ u8_pc' = "panic"
                /\ UNCHANGED <<product_scalars, lookup_u_scalars, lookup_t_scalars,
                               u_to_t_mapping, lasso_arg>>
           ELSE /\ product_scalars' =
                      [i \in Range0(n) |-> IF i < m THEN row_product(a(i), b(i)) ELSE 0]
                /\ lookup_u_scalars' =
                      [i \in Range0(n) |->
                          IF i < m THEN row_lookup_u(a(i), b(i)) ELSE <<0, 0>>]
                /\ lookup_t_scalars' = lookup_t_filled
                /\ u_to_t_mapping' =
                      [some |-> TRUE,
                       val |-> [i \in Range0(n) |->
                                   IF i < m THEN row_u_to_t(a(i), b(i)) ELSE 0]]
                /\ LassoCall(u_to_t_mapping')
    /\ UNCHANGED <<has_witness, has_inputs, log_size, mult_a_ints, mult_b_ints>>
    /\ UNCHANGED u8Others

\* lines 78, 82, 116-118: witness.get fails without the input columns, and
\* witness.set_owned, reached when no assertion failed, may fail
U8MulWitnessErr ==
    /\ u8_pc = "start"
    /\ has_witness
    /\ ~has_inputs \/ ~table_assert_fails
    /\ u8_pc' = "err"
    /\ UNCHANGED <<has_witness, has_inputs, log_size, mult_a_ints, mult_b_ints,
                   product_scalars, lookup_u_scalars, lookup_t_scalars, u_to_t_mapping,
                   lasso_arg>>
    /\ UNCHANGED u8Others

\* lines 70-72 and 123-131, the branch skipped without a witness
U8MulNoWitness ==
    /\ u8_pc = "start"
    /\ ~has_witness
    /\ LassoCall(u_to_t_mapping)
    /\ UNCHANGED <<has_witness, has_inputs, log_size, mult_a_ints, mult_b_ints,
                   product_scalars, lookup_u_scalars, lookup_t_scalars, u_to_t_mapping>>
    /\ UNCHANGED u8Others

U8Next ==
    \/ U8MulWitness
    \/ U8MulWitnessErr
    \/ U8MulNoWitness

SpecU8 == U8Init /\ [][U8Next]_vars

\* ---- claim on u8mul
U8Rows == Range0(2 ^ log_size)

C10_ExpectedTable ==
    [j \in Range0(65536) |-> <<j, ((j \div 256) % 256) * (j % 256)>>]

\* C10: with a witness, when u8mul returns Ok, for every input row i with bytes a and b:
\* product[i] = a*b, mapping[i] = (a << 8) | b = 256a + b and lookup_u[i] =
\* (mapping[i] << 16) | (a*b), the u32 with mapping[i] in its high and a*b in
\* its low 16 bits (a = 3, b = 5: product 15, index 773); lookup_t has
\* exactly 2^16 rows, row j being (j << 16) | (((j >> 8) & 0xff) * (j & 0xff));
\* and the assertion on the decoded index never fails.
C10_WitnessFill ==
    /\ u8_pc # "panic"
    /\ (u8_pc = "done" /\ has_witness) =>
          /\ u_to_t_mapping.some
          /\ DOMAIN product_scalars = U8Rows
          /\ DOMAIN lookup_u_scalars = U8Rows
          /\ DOMAIN u_to_t_mapping.val = U8Rows
          /\ \A i \in U8Rows :
                LET a == mult_a_ints[i]
                    b == mult_b_ints[i]
                IN  /\ product_scalars[i] = a * b
                    /\ u_to_t_mapping.val[i] = 256 * a + b
                    /\ lookup_u_scalars[i] = <<u_to_t_mapping.val[i], a * b>>
                    /\ (a = 3 /\ b = 5) =>
                          /\ product_scalars[i] = 15
                          /\ u_to_t_mapping.val[i] = 773
                          /\ lookup_u_scalars[i][1] * 65536 + lookup_u_scalars[i][2]
                                = 50659343
          /\ Len0(lookup_t_scalars) = 65536
          /\ lookup_t_scalars = C10_ExpectedTable

C10_Witness ==
    /\ u8_pc = "done" /\ has_witness
    /\ log_size = 1
    /\ mult_a_ints[0] = 3 /\ mult_b_ints[0] = 5
    /\ mult_a_ints[1] = 255 /\ mult_b_ints[1] = 255
    /\ product_scalars[0] = 15 /\ u_to_t_mapping.val[0] = 773
    /\ lookup_u_scalars[1] = <<65535, 65025>>
    /\ lookup_t_scalars[773] = <<773, 15>>

(***************************************************************************)
(* The encoding of u8mul by itself: one input row (a, b) over all bytes,   *)
(* its table row, and a second input row to compare it with.               *)
(***************************************************************************)
Bytes == 0 .. 255

SecondRows == { <<3, 5>>, <<255, 255>> }

EncInit ==
    /\ enc_a \in Bytes /\ enc_b \in Bytes
    /\ \E r \in SecondRows : enc_a2 = r[1] /\ enc_b2 = r[2]
    /\ enc_wide = <<0, 0>> /\ enc_u = <<0, 0>> /\ enc_t = <<0, 0>> /\ enc_u2 = <<0, 0>>
    /\ enc_pc = "start"
    /\ ExtIdle /\ FriIdle /\ QIdle /\ ZcIdle /\ U8Idle /\ FcIdle

\* lines 97-104 for the two input rows, lines 108-113 for the table row
Encode ==
    /\ enc_pc = "start"
    /\ enc_wide' = wide_combined(lookup_index(enc_a, enc_b), enc_a * enc_b)
    /\ enc_u' = row_lookup_u(enc_a, enc_b)
    /\ enc_t' = table_row(row_u_to_t(enc_a, enc_b))
    /\ enc_u2' = row_lookup_u(enc_a2, enc_b2)
    /\ enc_pc' = "done"
    /\ UNCHANGED <<enc_a, enc_b, enc_a2, enc_b2>>
    /\ UNCHANGED encOthers

EncNext == Encode

SpecEnc == EncInit /\ [][EncNext]_vars

\* reading a combined u32 back: a from bits 24..31, b from bits 16..23, the
\* product from bits 0..15
C11_Decode(v) == <<v[1] \div 256, v[1] % 256, v[2]>>

\* C11: for all bytes a, b the value (((a << 8) | b) << 16) | (a*b) fits in
\* 32 bits, with a in bits 24..31, b in bits 16..23 and a*b, which is below
\* 2^16, in bits 0..15; the scalars of lookup_u and of lookup_t decode to
\* (a, b, a*b); and two rows with equal combined values have equal triples.
C11_EncodingInjective ==
    (enc_pc = "done") =>
        /\ enc_a * enc_b < 65536
        /\ enc_wide[1] < 65536 /\ enc_wide[2] < 65536
        /\ enc_u = enc_wide
        /\ enc_u = <<256 * enc_a + enc_b, enc_a * enc_b>>
        /\ C11_Decode(enc_u) = <<enc_a, enc_b, enc_a * enc_b>>
        /\ C11_Decode(enc_t) = <<enc_a, enc_b, enc_a * enc_b>>
        /\ (enc_u = enc_u2) => (enc_a = enc_a2 /\ enc_b = enc_b2)
        /\ (enc_t = enc_u2) => (enc_a = enc_a2 /\ enc_b = enc_b2)

\* two rows of the same product and different values
C11_Witness ==
    /\ enc_pc = "done"
    /\ enc_a = 15 /\ enc_b = 1 /\ enc_a2 = 3 /\ enc_b2 = 5
    /\ enc_u[2] = enc_u2[2] /\ enc_u # enc_u2

C11_WitnessTop ==
    /\ enc_pc = "done"
    /\ enc_a = 255 /\ enc_b = 255 /\ enc_a2 = 255 /\ enc_b2 = 255
    /\ enc_u = <<65535, 65025>> /\ enc_u = enc_u2

(***************************************************************************)
(* fri/common.rs, fold_pair and fold_chunk.                                *)
(* The field F is the binary field of four elements 0..3 (addition is XOR, *)
(* 2 is a root of x^2 + x + 1). The subspace evaluator of the code's NTT   *)
(* is outside this code: it is a fixed function of (round, index), one of  *)
(* TwiddleTables, and asked for a round not below log_dim it may panic.    *)
(* fold_chunk runs one pair of cells per step.                             *)
(***************************************************************************)
RECURSIVE BitXor(_, _)
BitXor(x, y) ==
    IF x = 0 THEN y
    ELSE IF y = 0 THEN x
    ELSE ((x + y) % 2) + 2 * BitXor(x \div 2, y \div 2)

FieldF == 0 .. 3

FAdd(x, y) == BitXor(x, y)

\* x times the root 2, reduced by x^2 + x + 1
FTimes2(x) == IF x < 2 THEN 2 * x ELSE BitXor(2 * x - 4, 3)

FMul(x, y) == BitXor((y % 2) * x, (y \div 2) * FTimes2(x))

TwiddleTables == {0, 1}

\* rs_code.get_ntt().get_subspace_eval(round, index)
get_subspace_eval(tw, round, index) == (3 * round + index + tw) % 4

\* extrapolate_line(x0, x1, z): x0 + (x1 - x0) * z
extrapolate_line(x0, x1, z) == FAdd(x0, FMul(FAdd(x1, x0), z))

\* fold_pair without the butterfly
fold_pair_nobutterfly(tw, round, index, u, v, r) == extrapolate_line(u, v, r)

fold_pair(tw, round, index, u, v, r) ==
    LET t == get_subspace_eval(tw, round, index)
        v2 == FAdd(v, u)
        u2 == FAdd(u, FMul(v2, t))
    IN  extrapolate_line(u2, v2, r)

\* the index of a pair, the chunk index not shifted
pair_index_noshift(chunk, n_remaining_challenges, offset) == chunk + offset

\* (chunk_index << (n_remaining_challenges - 1)) + index_offset
pair_index(chunk, n_remaining_challenges, offset) ==
    Shl(chunk, n_remaining_challenges - 1) + offset

\* the cells a pair reads and the cell it writes
read_cells(offset) == <<Shl(offset, 1), Shl(offset, 1) + 1>>

write_cell(offset) == offset

\* ---- the inputs
ValueSample == <<1, 3, 2, 0, 3, 1, 2, 2, 0, 1, 3>>

ChallengeSample == <<2, 3, 1, 0, 2>>

Window(smp, start, n) == [i \in Range0(n) |-> smp[((start + i) % Len(smp)) + 1]]

ValueInputs(k) == { Window(ValueSample, st, 2 ^ k) : st \in 0 .. 4 }

ChallengeInputs(k) == { Window(ChallengeSample, st, k) : st \in 0 .. 2 }

FcInit ==
    /\ \E k \in 1 .. MaxChallenges :
          /\ fc_values \in ValueInputs(k)
          /\ folding_challenges \in ChallengeInputs(k)
          /\ \E extra \in 0 .. 1 : scratch_buffer = [i \in Range0(2 ^ k + extra) |-> 3]
    /\ fc_log_dim \in 1 .. (MaxStartRound + MaxChallenges)
    /\ fc_twiddle \in TwiddleTables
    /\ fc_start_round \in 0 .. MaxStartRound
    /\ fc_chunk_index \in 0 .. MaxChunkIndex
    /\ debug_assertions \in BOOLEAN
    /\ n_challenges_processed = 0 /\ index_offset = 0
    /\ fc_pc = "start" /\ fc_ret = 0 /\ fc_written = {} /\ fc_hazard = FALSE
    /\ fc_log = <<>>
    /\ ExtIdle /\ FriIdle /\ QIdle /\ ZcIdle /\ U8Idle /\ EncIdle

final_round == fc_start_round + Len0(folding_challenges) - 1

\* lines 63-67: the debug assertions
debug_assert_fails ==
    \/ Len0(folding_challenges) = 0
    \/ ~(final_round < fc_log_dim)
    \/ Len0(fc_values) # 2 ^ Len0(folding_challenges)
    \/ Len0(scratch_buffer) # Len0(fc_values)

\* line 69: copy_from_slice panics on slices of different lengths
copy_from_slice_panics == Len0(scratch_buffer) # Len0(fc_values)

\* lines 63-69, a panic
FoldChunkPanic ==
    /\ fc_pc = "start"
    /\ (debug_assertions /\ debug_assert_fails) \/ copy_from_slice_panics
    /\ fc_pc' = "panic"
    /\ UNCHANGED <<fc_log_dim, fc_twiddle, fc_start_round, fc_chunk_index, fc_values,
                   folding_challenges, scratch_buffer, debug_assertions,
                   n_challenges_processed, index_offset, fc_ret, fc_written,
                   fc_hazard, fc_log>>
    /\ UNCHANGED fcOthers

\* lines 63-69
FoldChunkBegin ==
    /\ fc_pc = "start"
    /\ ~(debug_assertions /\ debug_assert_fails)
    /\ ~copy_from_slice_panics
    /\ scratch_buffer' = fc_values
    /\ n_challenges_processed' = 0 /\ index_offset' = 0
    /\ fc_written' = {}
    /\ fc_pc' = "fold"
    /\ UNCHANGED <<fc_log_dim, fc_twiddle, fc_start_round, fc_chunk_index, fc_values,
                   folding_challenges, debug_assertions, fc_ret, fc_hazard, fc_log>>
    /\ UNCHANGED fcOthers

\* lines 71-85, one pair
FoldPairStep ==
    /\ fc_pc = "fold"
    /\ n_challenges_processed < Len0(folding_challenges)
    /\ LET n_remaining_challenges == Len0(folding_challenges) - n_challenges_processed
           scratch_buffer_len == Shr(Len0(fc_values), n_challenges_processed)
           new_scratch_buffer_len == Shr(scratch_buffer_len, 1)
           round == fc_start_round + n_challenges_processed
           r == folding_challenges[n_challenges_processed]
           index == pair_index(fc_chunk_index, n_remaining_challenges, index_offset)
           cells == read_cells(index_offset)
           u == scratch_buffer[cells[1]]
           v == scratch_buffer[cells[2]]
           res == fold_pair(fc_twiddle, round, index, u, v, r)
       IN  \E evaluates \in (IF round < fc_log_dim THEN {TRUE} ELSE BOOLEAN) :
              IF ~evaluates
              THEN /\ fc_pc' = "panic"
                   /\ UNCHANGED <<scratch_buffer, n_challenges_processed, index_offset,
                                  fc_written, fc_hazard, fc_log>>
              ELSE /\ scratch_buffer' =
                         [scratch_buffer EXCEPT ![write_cell(index_offset)] = res]
                   /\ fc_hazard' =
                         (fc_hazard \/ cells[1] \in fc_written \/ cells[2] \in fc_written)
                   /\ fc_log' = Append(fc_log,
                         [round |-> round, index |-> index, read |-> cells,
                          write |-> write_cell(index_offset),
                          challenge |-> n_challenges_processed,
                          u |-> u, v |-> v, r |-> r,
                          t |-> get_subspace_eval(fc_twiddle, round, index),
                          result |-> res])
                   /\ IF index_offset + 1 = new_scratch_buffer_len
                      THEN /\ n_challenges_processed' = n_challenges_processed + 1
                           /\ index_offset' = 0
                           /\ fc_written' = {}
                      ELSE /\ index_offset' = index_offset + 1
                           /\ fc_written' = fc_written \cup {write_cell(index_offset)}
                           /\ UNCHANGED n_challenges_processed
                   /\ UNCHANGED fc_pc
    /\ UNCHANGED <<fc_log_dim, fc_twiddle, fc_start_round, fc_chunk_index, fc_values,
                   folding_challenges, debug_assertions, fc_ret>>
    /\ UNCHANGED fcOthers

\* line 87
FoldChunkReturn ==
    /\ fc_pc = "fold"
    /\ n_challenges_processed = Len0(folding_challenges)
    /\ fc_ret' = scratch_buffer[0]
    /\ fc_pc' = "returned"
    /\ UNCHANGED <<fc_log_dim, fc_twiddle, fc_start_round, fc_chunk_index, fc_values,
                   folding_challenges, scratch_buffer, debug_assertions,
                   n_challenges_processed, index_offset, fc_written, fc_hazard, fc_log>>
    /\ UNCHANGED fcOthers

FcNext ==
    \/ FoldChunkPanic
    \/ FoldChunkBegin
    \/ FoldPairStep
    \/ FoldChunkReturn

SpecFc == FcInit /\ [][FcNext]_vars

\* ---- claim on fold_chunk
C12_K == Len0(folding_challenges)

C12_AddTable == << <<0, 1, 2, 3>>, <<1, 0, 3, 2>>, <<2, 3, 0, 1>>, <<3, 2, 1, 0>> >>

C12_MulTable == << <<0, 0, 0, 0>>, <<0, 1, 2, 3>>, <<0, 2, 3, 1>>, <<0, 3, 1, 2>> >>

C12_Add(x, y) == C12_AddTable[x + 1][y + 1]

C12_Mul(x, y) == C12_MulTable[x + 1][y + 1]

\* v2 = v + u, u2 = u + v2*t, and the line through (u2, v2) at r
C12_FoldPair(t, u, v, r) ==
    LET v2 == C12_Add(v, u)
        u2 == C12_Add(u, C12_Mul(v2, t))
    IN  C12_Add(u2, C12_Mul(r, C12_Add(v2, u2)))

C12_Index(j, i) == fc_chunk_index * 2 ^ (C12_K - j - 1) + i

\* round j of the sequential folding, into a new buffer
C12_FoldRound(buf, j) ==
    [i \in Range0(Len0(buf) \div 2) |->
        C12_FoldPair(get_subspace_eval(fc_twiddle, fc_start_round + j, C12_Index(j, i)),
                     buf[2 * i], buf[2 * i + 1], folding_challenges[j])]

RECURSIVE C12_Sequential(_, _)
C12_Sequential(buf, j) ==
    IF j = C12_K THEN buf[0] ELSE C12_Sequential(C12_FoldRound(buf, j), j + 1)

\* the place in the log of pair i of round j
C12_Pos(j, i) == (2 ^ C12_K - 2 ^ (C12_K - j)) + i + 1

C12_Requires ==
    /\ fc_start_round + C12_K - 1 < fc_log_dim
    /\ Len0(scratch_buffer) = Len0(fc_values)

C12_State ==
    /\ ~fc_hazard
    /\ \A p \in DOMAIN fc_log :
          fc_log[p].result = C12_FoldPair(fc_log[p].t, fc_log[p].u, fc_log[p].v, fc_log[p].r)
    /\ (fc_pc = "panic") => ~C12_Requires
    /\ (fc_pc = "returned") =>
          /\ fc_ret = C12_Sequential(fc_values, 0)
          /\ Len(fc_log) = 2 ^ C12_K - 1
          /\ \A j \in Range0(C12_K) : \A i \in Range0(2 ^ (C12_K - j - 1)) :
                LET e == fc_log[C12_Pos(j, i)]
                IN  /\ e.round = fc_start_round + j
                    /\ e.challenge = j
                    /\ e.r = folding_challenges[j]
                    /\ e.index = C12_Index(j, i)
                    /\ e.read = <<2 * i, 2 * i + 1>>
                    /\ e.write = i

\* C12: for k >= 1 challenges and 2^k values, fold_chunk returns what k
\* sequential rounds of fold_pair give, round j with round number
\* start_round + j and challenge j folding the cells (2i, 2i+1) with index
\* (chunk_index << (k - j - 1)) + i into cell i; no pair reads a cell written
\* earlier in its round; values is never changed; fold_pair(u, v, r) is the
\* line through (u2, v2) at r for v2 = v + u and u2 = u + v2*t; and within
\* the stated requirements fold_chunk does not panic.
C12_FoldChunkIsSequential ==
    /\ [](C12_State)
    /\ [][fc_values' = fc_values]_vars

C12_Witness ==
    /\ fc_pc = "returned"
    /\ C12_K = 2 /\ fc_chunk_index = 1 /\ fc_start_round = 1
    /\ Len(fc_log) = 3
    /\ fc_log[1].index = 2 /\ fc_log[2].index = 3 /\ fc_log[3].index = 1
    /\ fc_log[3].u # fc_values[0]
    /\ fc_ret = C12_Sequential(fc_values, 0)

\* ---- the mapping and the table
\* C13: after the witness synthesis of u8mul every mapping entry is a row of
\* the table, 0 <= mapping[i] < 2^16, and lookup_u[i] = lookup_t[mapping[i]]
\* for every input row i; lasso is handed Some(mapping) exactly when a
\* witness is present and None otherwise, and is not called before the
\* columns are filled.
C13_MappingIntoTable ==
    /\ u_to_t_mapping.some =>
          /\ has_witness
          /\ DOMAIN u_to_t_mapping.val = U8Rows
          /\ \A i \in U8Rows :
                /\ 0 <= u_to_t_mapping.val[i] /\ u_to_t_mapping.val[i] < 65536
                /\ u_to_t_mapping.val[i] \in DOMAIN lookup_t_scalars
                /\ lookup_u_scalars[i] = lookup_t_scalars[u_to_t_mapping.val[i]]
    /\ lasso_arg.called =>
          /\ u8_pc \in {"done", "err_lasso"}
          /\ lasso_arg.u_to_t_mapping = u_to_t_mapping
          /\ lasso_arg.u_to_t_mapping.some <=> has_witness
    /\ (u8_pc \in {"done", "err_lasso"}) => lasso_arg.called

C13_Witness ==
    /\ u8_pc = "done" /\ has_witness /\ log_size = 1
    /\ lasso_arg.called /\ lasso_arg.u_to_t_mapping.some
    /\ mult_a_ints[0] = 255 /\ mult_b_ints[0] = 255
    /\ lasso_arg.u_to_t_mapping.val[0] = 65535
    /\ lookup_t_scalars[65535] = <<65535, 65025>>
    /\ lookup_u_scalars[0] = lookup_t_scalars[65535]
    /\ lasso_arg.u_to_t_mapping.val[1] = 200

C13_WitnessNone ==
    /\ u8_pc = "done" /\ ~has_witness
    /\ lasso_arg.called /\ ~lasso_arg.u_to_t_mapping.some

====
